---- MODULE Spec2Model ----
(***************************************************************************)
(* psqlgraph: the session scope manager of PsqlGraphDriver                 *)
(* (psqlgraph.py, session_scope) and the retry executor (util.py,          *)
(* retryable).                                                             *)
(*                                                                         *)
(* Sessions are numbered 1..Len(sessions) in order of creation.  One       *)
(* execution context is modelled: its xlocal attribute `session` is ctx,   *)
(* the open session_scope generators form `stack`, and `exc` is the        *)
(* exception travelling from the innermost open body (or from a scope     *)
(* that has just been left) towards the caller.                            *)
(***************************************************************************)
EXTENDS Integers, Sequences, FiniteSets, TLC

\* ---------------------------------------------------------------- bounds
MaxSessions == 2
MaxDepth == 2
MaxRetries == 3
MaxFailures == 4

\* the objects a body may stage (node ids)
Items == {"n1"}

\* session=None (psqlgraph.py:48); also "the context has no session attribute"
None == 0

\* util.py:11 / psqlgraph.py:21
DEFAULT_RETRIES == 0

\* The exception classes the code tells apart: IntegrityError (a subclass of
\* Exception, retried by retryable), any other subclass of Exception, and
\* exceptions that derive from BaseException only (KeyboardInterrupt,
\* SystemExit), which `except Exception` does not catch.
ExcKinds == {"IntegrityError", "Exception", "BaseException"}

VARIABLES
    sessions,   \* Seq of [pending, closed]: every session created so far
    db,         \* the objects committed to the storage backend
    stack,      \* Seq of [local, inherited, saved]: the open session scopes, outermost first
    ctx,        \* self.context.session, None when the attribute is absent
    exc,        \* "none", or the class of the exception in flight
    last,       \* what the most recent operation did (the code's logging.debug/error lines)
    r_kw,       \* retryable: TRUE when max_retries is passed as a keyword
    r_max,      \* retryable: the value of the max_retries keyword
    r_fail,     \* retryable: the wrapped function raises IntegrityError on its first r_fail calls
    r_then,     \* retryable: what the wrapped function does after that: "ok" or an exception class
    retries,    \* retryable.wrapper: local variable retries
    calls,      \* number of times func was invoked
    backoffs,   \* number of times backoff was invoked
    r_pc,       \* "idle" (no call in progress), "loop" (in the while loop), "done"
    r_out       \* how wrapper ended: "none" (not yet), "result" (func's result is
                \* returned), "None" (the loop was left without a return), or the
                \* class of the exception that reached the caller

svars == <<sessions, db, stack, ctx, exc, last>>
rvars == <<r_kw, r_max, r_fail, r_then, retries, calls, backoffs, r_pc, r_out>>

\* two contexts inserting a node each (node_insert)
Contexts == {1, 2}

\* node ids
NodeIds == {"n1", "n2"}

VARIABLES
    i_kw,       \* node_insert: TRUE when the call passes max_retries=3 as a keyword
    i_id,       \* node_insert: the id of the node each context inserts
    i_pc,       \* node_insert: per context "idle", "start", "staged", "done"
    i_res,      \* node_insert: per context "none", "ok", "rolledback" or an exception class
    i_rows      \* node table: for every id the number of committed live rows with it

ivars == <<i_kw, i_id, i_pc, i_res, i_rows>>

\* keys and values of the properties and system_annotations mappings; a
\* mapping is a function over its keys, None standing for "key not present"
PropKeys == {"k1", "k2"}
SysanKeys == {"s"}
PropDicts == {d \in [PropKeys -> {None, 1, 2}] : d["k2"] # 2}
SysanDicts == [SysanKeys -> {None, 1}]
NoProps == [k \in PropKeys |-> None]
NoSysan == [k \in SysanKeys |-> None]

\* labels, and acl lists written as Python writes them ("None": no list)
Labels == {"A", "B"}
Acls == {"[]", "['a']"}

\* one entity: a node with node_id n1, or an edge n1 -> n2 of one edge class
VARIABLES
    e_kind,     \* "node" or "edge"
    e_obj,      \* the instance the caller holds: label, acl, properties, system_annotations
    e_rows,     \* the committed live rows that have the entity's primary key
    e_new,      \* the history records added by the flush of the last operation
    e_last      \* the last operation on the entity and its arguments

evars == <<e_kind, e_obj, e_rows, e_new, e_last>>

\* the edges of the stored graph: <<label, src_id, dst_id>>, one edge class
\* (table) per label, primary key (src_id, dst_id)
EdgeKeys == {<<"L1", "n1", "n2">>, <<"L2", "n1", "n1">>}

\* a stored graph
VARIABLES
    g_nodes,    \* for every node id the value of property k1 of its live row, None: no row
    g_edges,    \* for every edge the value of property k1 of its live row, None: no row
    g_hist,     \* the committed history records (voided nodes and voided edges)
    g_del       \* the node the last operation deleted (node), or the node whose edges
                \* it deleted (of), and the edges deleted by it

gvars == <<g_nodes, g_edges, g_hist, g_del>>

\* the last operation deleted no node
NoDelete == [node |-> "None", of |-> "None", edges |-> {}]

\* the graph is empty
GIdle ==
    /\ g_nodes = [n \in NodeIds |-> None]
    /\ g_edges = [e \in EdgeKeys |-> None]
    /\ g_hist = {}
    /\ g_del = NoDelete

\* the edges a query is evaluated over
QEdgeKeys == EdgeKeys \cup {<<"L1", "n2", "n1">>}

\* the value of a column of the outer-joined alias on a row without a match
NULL == "NULL"

\* the value None returned by a method that falls off its end; a query is
\* [none |-> FALSE, rows, at]: rows pair a root node with the node (or NULL)
\* at the end of the joins, at names the entity later filters apply to
PyNone == [none |-> TRUE, rows |-> {}, at |-> "root"]

\* a call of a query method: its name, the label list and the reset flag of a
\* path method, and the query it was called on
QCall(op, labels, reset, before) ==
    [op |-> op, labels |-> labels, reset |-> reset, before |-> before]

\* a query over a graph, and two edges under comparison
VARIABLES
    q_nodes,    \* for every node id its label, property k1 and system annotation s
    q_edges,    \* the stored edges
    q_query,    \* the value the last query method returned
    q_last,     \* the last call of a query method
    eq_a,       \* the left edge
    eq_b,       \* the right edge
    eq_res      \* the results of a == b, b == a and a != b, "none" before the comparison

qvars == <<q_nodes, q_edges, q_query, q_last, eq_a, eq_b, eq_res>>

\* an edge instance
EdgeObj(type, src_id, dst_id, k1) ==
    [type |-> type, src_id |-> src_id, dst_id |-> dst_id, k1 |-> k1]

\* no comparison has been made
NoResult == [eq |-> "none", qe |-> "none", ne |-> "none"]

\* no query has been built
QueryIdle ==
    /\ q_nodes = [n \in NodeIds |-> [label |-> "A", k1 |-> 1, s |-> None]]
    /\ q_edges = {}
    /\ q_query = PyNone
    /\ q_last = QCall("none", <<>>, FALSE, PyNone)

\* no edges are compared
EqIdle ==
    /\ eq_a = EdgeObj("Edge1", "n1", "n1", 1)
    /\ eq_b = EdgeObj("Edge1", "n1", "n1", 1)
    /\ eq_res = NoResult

QIdle == QueryIdle /\ EqIdle

vars == <<sessions, db, stack, ctx, exc, last,
          r_kw, r_max, r_fail, r_then, retries, calls, backoffs, r_pc, r_out,
          i_kw, i_id, i_pc, i_res, i_rows,
          e_kind, e_obj, e_rows, e_new, e_last,
          g_nodes, g_edges, g_hist, g_del,
          q_nodes, q_edges, q_query, q_last, eq_a, eq_b, eq_res>>

\* a call on the entity: the operation, its arguments (pg and sg tell whether
\* properties and system_annotations were supplied) and the exception raised
ECall(op, label, acl, pg, props, sg, sysan, raised) ==
    [op |-> op, label |-> label, acl |-> acl, pg |-> pg, props |-> props,
     sg |-> sg, sysan |-> sysan, raised |-> raised]

NoCall == ECall("none", "None", "None", FALSE, NoProps, FALSE, NoSysan, "none")

\* an instance or row of the entity
Entity(label, acl, props, sysan) ==
    [label |-> label, acl |-> acl, props |-> props, sysan |-> sysan]

\* no entity exists
EIdle ==
    /\ e_kind = "node"
    /\ e_obj = Entity("A", "[]", NoProps, NoSysan)
    /\ e_rows = {}
    /\ e_new = <<>>
    /\ e_last = NoCall

\* no call of a retry-wrapped function is in progress
RIdle ==
    /\ r_kw = FALSE /\ r_max = DEFAULT_RETRIES /\ r_fail = 0 /\ r_then = "ok"
    /\ retries = 0 /\ calls = 0 /\ backoffs = 0 /\ r_pc = "idle" /\ r_out = "none"

\* no context is inserting a node
IIdle ==
    /\ i_kw = FALSE
    /\ i_id = [c \in Contexts |-> "n1"]
    /\ i_pc = [c \in Contexts |-> "idle"]
    /\ i_res = [c \in Contexts |-> "none"]
    /\ i_rows = [n \in NodeIds |-> 0]

\* ------------------------------------------------------- session objects

\* Session() as built by _new_session: nothing staged, not closed
FreshSession == [pending |-> {}, closed |-> FALSE]

\* local.add(node): stage an object in the session's open transaction
add(ss, s, x) == [ss EXCEPT ![s].pending = @ \cup {x}, ![s].closed = FALSE]

\* local.commit(): the staged objects become durable, the transaction ends
commit(st, s) == [ss |-> [st.ss EXCEPT ![s].pending = {}],
                  d |-> st.d \cup st.ss[s].pending]

\* local.rollback(): the staged objects are discarded
rollback(st, s) == [st EXCEPT !.ss[s].pending = {}]

\* local.expunge_all(): every object leaves the session
expunge_all(st, s) == [st EXCEPT !.ss[s].pending = {}]

\* local.close(): the transaction and the connection are released
close(st, s) == [st EXCEPT !.ss[s].pending = {}, !.ss[s].closed = TRUE]

\* One method call c = [m, s] on session s, on st = [ss: the sessions, d: the
\* storage]; a commit the storage refuses (commit_ok = FALSE) raises and
\* leaves the transaction as it was.
call(st, c, commit_ok) ==
    CASE c.m = "commit" -> IF commit_ok THEN commit(st, c.s) ELSE st
      [] c.m = "rollback" -> rollback(st, c.s)
      [] c.m = "expunge_all" -> expunge_all(st, c.s)
      [] c.m = "close" -> close(st, c.s)

RECURSIVE Run(_, _, _)
Run(st, ms, commit_ok) ==
    IF ms = <<>> THEN st
    ELSE Run(call(st, Head(ms), commit_ok), Tail(ms), commit_ok)

\* ------------------------------------------------------- PsqlGraphDriver

has_session == ctx # None

current_session == ctx

\* faulty variant: a session factory that hands out the context's session again
new_session_reused == IF has_session THEN current_session ELSE Len(sessions) + 1

\* _new_session returns a Session object distinct from every existing one
new_session == Len(sessions) + 1

\* faulty variant: the must_inherit guard is missing
must_inherit_unchecked(must_inherit) == FALSE

\* `if must_inherit and not self.has_session(): raise RuntimeError`
must_inherit_fails(must_inherit) == must_inherit /\ ~has_session

\* faulty variant: can_inherit is ignored, a scope without explicit session is always new
setup_local_never_inherits(session, can_inherit) ==
    IF session # None
    THEN [local |-> session, inherited |-> TRUE]
    ELSE [local |-> new_session, inherited |-> FALSE]

\* faulty variant: the ambient session is preferred to the explicit one
setup_local_prefers_ambient(session, can_inherit) ==
    IF can_inherit /\ has_session
    THEN [local |-> current_session, inherited |-> TRUE]
    ELSE IF session # None
         THEN [local |-> session, inherited |-> TRUE]
         ELSE [local |-> new_session, inherited |-> FALSE]

\* "Set up local session"
setup_local(session, can_inherit) ==
    IF session # None
    THEN [local |-> session, inherited |-> TRUE]
    ELSE IF ~(can_inherit /\ has_session)
         THEN [local |-> new_session, inherited |-> FALSE]
         ELSE [local |-> current_session, inherited |-> TRUE]

\* `except Exception, msg:` catches the subclasses of Exception only
caught_by_except(e) == e \in {"IntegrityError", "Exception"}

\* the statement after the with block, run when the body f ended without an
\* exception: `if not inherited_session: local.commit()`
try_calls(f, body_exc) ==
    IF body_exc = "none" /\ ~f.inherited
    THEN <<[m |-> "commit", s |-> f.local]>>
    ELSE <<>>

\* the exception, if any, that leaves the try block: the body's, or the
\* IntegrityError of a commit the storage refuses
try_raises(f, body_exc, commit_ok) ==
    IF body_exc # "none" THEN body_exc
    ELSE IF ~f.inherited /\ ~commit_ok THEN "IntegrityError"
    ELSE "none"

\* faulty variant: the rollback goes to the context's session, looked up after the
\* with block has already put the enclosing scope's session back
except_calls_current(f, raised) ==
    IF raised # "none" /\ caught_by_except(raised)
    THEN <<[m |-> "rollback", s |-> IF f.saved # None THEN f.saved ELSE f.local]>>
    ELSE <<>>

\* faulty variant: only a scope that owns its session rolls it back
except_calls_owner_only(f, raised) ==
    IF raised # "none" /\ caught_by_except(raised) /\ ~f.inherited
    THEN <<[m |-> "rollback", s |-> f.local]>>
    ELSE <<>>

\* the except clause: `local.rollback()`
except_calls(f, raised) ==
    IF raised # "none" /\ caught_by_except(raised)
    THEN <<[m |-> "rollback", s |-> f.local]>>
    ELSE <<>>

\* faulty variant: the except clause lacks its `raise`
reraised_swallowed(raised) == "none"

\* the except clause ends in `raise`: the exception that leaves the scope
reraised(raised) == raised

\* faulty variant: expunge_all/close sit after the commit instead of in a finally clause
finally_calls_on_success(f, raised) ==
    IF ~f.inherited /\ raised = "none"
    THEN <<[m |-> "expunge_all", s |-> f.local], [m |-> "close", s |-> f.local]>>
    ELSE <<>>

\* faulty variant: the finally clause does not test inherited_session
finally_calls_always(f, raised) ==
    <<[m |-> "expunge_all", s |-> f.local], [m |-> "close", s |-> f.local]>>

\* the finally clause: `if not inherited_session: expunge_all(); close()`
finally_calls(f, raised) ==
    IF ~f.inherited
    THEN <<[m |-> "expunge_all", s |-> f.local], [m |-> "close", s |-> f.local]>>
    ELSE <<>>

\* every method the scope f calls on sessions while it is left, in order
exit_calls(f, body_exc, commit_ok) ==
    try_calls(f, body_exc)
      \o except_calls(f, try_raises(f, body_exc, commit_ok))
      \o finally_calls(f, try_raises(f, body_exc, commit_ok))

\* faulty variant: leaving the with block removes the attribute
context_restore_removes(f) == None

\* leaving `with self.context(session=local)` puts the attribute back to
\* what it was on entry (absent when it was absent)
context_restore(f) == f.saved

NoOp == [op |-> "init", local |-> None, inherited |-> FALSE, session |-> None,
         can_inherit |-> FALSE, must_inherit |-> FALSE, prev |-> None,
         created |-> FALSE, item |-> "none", ms |-> <<>>,
         body_exc |-> "none", raised |-> "none", commit_ok |-> TRUE]

Top == stack[Len(stack)]

\* the caller builds a session of its own, to pass it as `session` later
NewSession ==
    /\ exc = "none"
    /\ Len(sessions) < MaxSessions
    /\ sessions' = Append(sessions, FreshSession)
    /\ last' = [NoOp EXCEPT !.op = "new", !.local = new_session, !.prev = ctx,
                            !.created = TRUE]
    /\ UNCHANGED <<db, stack, ctx, exc>>

\* entering `with session_scope(session, can_inherit, must_inherit)`: the
\* generator runs up to its yield
Enter(session, can_inherit, must_inherit) ==
    /\ exc = "none"
    /\ Len(stack) < MaxDepth
    /\ IF must_inherit_fails(must_inherit)
       THEN /\ exc' = "Exception"      \* RuntimeError
            /\ last' = [NoOp EXCEPT !.op = "enter_fail", !.session = session,
                                    !.can_inherit = can_inherit,
                                    !.must_inherit = must_inherit, !.prev = ctx,
                                    !.raised = "Exception"]
            /\ UNCHANGED <<sessions, db, stack, ctx>>
       ELSE LET sel == setup_local(session, can_inherit) IN
            /\ sel.local \in 1..MaxSessions
            /\ sessions' = IF sel.local > Len(sessions)
                           THEN Append(sessions, FreshSession)
                           ELSE sessions
            /\ stack' = Append(stack, [session |-> session,
                                       local |-> sel.local,
                                       inherited |-> sel.inherited,
                                       saved |-> ctx])
            /\ ctx' = sel.local
            /\ last' = [NoOp EXCEPT !.op = "enter", !.local = sel.local,
                                    !.inherited = sel.inherited,
                                    !.session = session,
                                    !.can_inherit = can_inherit,
                                    !.must_inherit = must_inherit, !.prev = ctx,
                                    !.created = (Len(sessions') > Len(sessions))]
            /\ UNCHANGED <<db, exc>>

\* node_insert(x) called in the body of the innermost scope: its own
\* session_scope() inherits, the node is added, and the scope is left
BodyAdd(x) ==
    /\ exc = "none"
    /\ stack # <<>>
    /\ LET sel == setup_local(None, TRUE)
           f == [session |-> None, local |-> sel.local,
                 inherited |-> sel.inherited, saved |-> ctx]
           ms == exit_calls(f, "none", TRUE)
           st == Run([ss |-> add(sessions, sel.local, x), d |-> db], ms, TRUE)
       IN
       /\ sel.local \in 1..Len(sessions)
       /\ sessions' = st.ss
       /\ db' = st.d
       /\ last' = [NoOp EXCEPT !.op = "add", !.local = sel.local,
                               !.inherited = sel.inherited, !.prev = ctx,
                               !.item = x, !.ms = ms]
    /\ UNCHANGED <<stack, ctx, exc>>

\* the body calls rollback() on the session its scope yielded
\* (docstring: E.rollback(), F.rollback(), H.rollback())
BodyRollback ==
    /\ exc = "none"
    /\ stack # <<>>
    /\ sessions[Top.local].pending # {}
    /\ sessions' = rollback([ss |-> sessions, d |-> db], Top.local).ss
    /\ last' = [NoOp EXCEPT !.op = "rollback", !.local = Top.local,
                            !.inherited = Top.inherited, !.prev = ctx,
                            !.ms = <<[m |-> "rollback", s |-> Top.local]>>]
    /\ UNCHANGED <<db, stack, ctx, exc>>

\* the body of the innermost scope raises
BodyRaise(e) ==
    /\ exc = "none"
    /\ stack # <<>>
    /\ exc' = e
    /\ last' = [NoOp EXCEPT !.op = "raise", !.local = Top.local,
                            !.inherited = Top.inherited, !.prev = ctx,
                            !.body_exc = e, !.raised = e]
    /\ UNCHANGED <<sessions, db, stack, ctx>>

\* leaving the with statement: the generator runs on from its yield.  exc is
\* the exception the body ended with ("none": it ended normally); commit_ok
\* is whether the storage accepts the commit.
Exit(commit_ok) ==
    /\ stack # <<>>
    /\ LET f == Top
           ms == exit_calls(f, exc, commit_ok)
           raised == try_raises(f, exc, commit_ok)
           st == Run([ss |-> sessions, d |-> db], ms, commit_ok)
       IN
       /\ (commit_ok = FALSE) => (exc = "none" /\ ~f.inherited)
       /\ sessions' = st.ss
       /\ db' = st.d
       /\ stack' = SubSeq(stack, 1, Len(stack) - 1)
       /\ ctx' = context_restore(f)
       /\ exc' = IF raised # "none" /\ caught_by_except(raised)
                 THEN reraised(raised) ELSE raised
       /\ last' = [NoOp EXCEPT !.op = "exit", !.local = f.local,
                               !.inherited = f.inherited, !.session = f.session,
                               !.prev = ctx, !.ms = ms, !.body_exc = exc,
                               !.raised = exc', !.commit_ok = commit_ok]

\* the enclosing body, or the caller of the outermost scope, handles the
\* exception that reached it
Catch ==
    /\ exc # "none"
    /\ exc' = "none"
    /\ last' = [NoOp EXCEPT !.op = "catch", !.prev = ctx, !.body_exc = exc]
    /\ UNCHANGED <<sessions, db, stack, ctx>>

Init ==
    /\ sessions = <<>>
    /\ db = {}
    /\ stack = <<>>
    /\ ctx = None
    /\ exc = "none"
    /\ last = NoOp
    /\ RIdle
    /\ IIdle
    /\ EIdle
    /\ GIdle
    /\ QIdle

Next ==
    \/ NewSession /\ UNCHANGED <<rvars, ivars, evars, gvars, qvars>>
    \/ (\E s \in 0..MaxSessions, c \in BOOLEAN, m \in BOOLEAN :
            s <= Len(sessions) /\ Enter(s, c, m)) /\ UNCHANGED <<rvars, ivars, evars, gvars, qvars>>
    \/ (\E x \in Items : BodyAdd(x)) /\ UNCHANGED <<rvars, ivars, evars, gvars, qvars>>
    \/ BodyRollback /\ UNCHANGED <<rvars, ivars, evars, gvars, qvars>>
    \/ (\E e \in ExcKinds : BodyRaise(e)) /\ UNCHANGED <<rvars, ivars, evars, gvars, qvars>>
    \/ (\E ok \in BOOLEAN : Exit(ok)) /\ UNCHANGED <<rvars, ivars, evars, gvars, qvars>>
    \/ Catch /\ UNCHANGED <<rvars, ivars, evars, gvars, qvars>>

Spec == Init /\ [][Next]_vars

\* ------------------------------------------------------------ retryable

\* util.py:98  max_retries = kwargs.get('max_retries', DEFAULT_RETRIES)
max_retries == IF r_kw THEN r_max ELSE DEFAULT_RETRIES

\* util.py:100  while retries <= max_retries
loop_cond(r, m) == r <= m

\* faulty variant: off by one in the exhaustion test
exhausted_late(r, m) == r > m

\* util.py:107  if retries >= max_retries: raise
exhausted(r, m) == r >= m

\* faulty variant: `except Exception` instead of `except IntegrityError`
is_conflict_any(e) == TRUE

\* util.py:103  except IntegrityError
is_conflict(e) == e = "IntegrityError"

\* the wrapped function: a storage conflict on its first r_fail calls, then r_then
func(n) == IF n <= r_fail THEN "IntegrityError" ELSE r_then

\* util.py:100-115  one pass through the body of the while loop
Attempt ==
    /\ r_pc = "loop"
    /\ loop_cond(retries, max_retries)
    /\ calls' = calls + 1
    /\ LET res == func(calls + 1) IN
       IF res = "ok"
       THEN /\ r_pc' = "done" /\ r_out' = "result"                 \* line 102
            /\ UNCHANGED <<retries, backoffs>>
       ELSE IF is_conflict(res)
            THEN IF exhausted(retries, max_retries)
                 THEN /\ r_pc' = "done" /\ r_out' = res            \* line 111
                      /\ UNCHANGED <<retries, backoffs>>
                 ELSE /\ retries' = retries + 1                    \* line 112
                      /\ backoffs' = backoffs + 1                  \* line 113
                      /\ UNCHANGED <<r_pc, r_out>>
            ELSE /\ r_pc' = "done" /\ r_out' = res                 \* not caught
                 /\ UNCHANGED <<retries, backoffs>>
    /\ UNCHANGED <<r_kw, r_max, r_fail, r_then>>

\* util.py:100, 116  the loop condition is false: wrapper ends without a return
FallThrough ==
    /\ r_pc = "loop"
    /\ ~loop_cond(retries, max_retries)
    /\ r_pc' = "done" /\ r_out' = "None"
    /\ UNCHANGED <<r_kw, r_max, r_fail, r_then, retries, calls, backoffs>>

\* no session scope is open and no session exists
SIdle ==
    /\ sessions = <<>> /\ db = {} /\ stack = <<>> /\ ctx = None
    /\ exc = "none" /\ last = NoOp

\* util.py:96-99  a call of a retry-wrapped function, for every max_retries
\* and every wrapped function
InitRetry ==
    /\ sessions = <<>> /\ db = {} /\ stack = <<>> /\ ctx = None
    /\ exc = "none" /\ last = NoOp
    /\ IIdle
    /\ EIdle
    /\ GIdle
    /\ QIdle
    /\ r_kw \in BOOLEAN
    /\ r_max \in (-1)..MaxRetries
    /\ (~r_kw) => r_max = DEFAULT_RETRIES
    /\ r_fail \in 0..MaxFailures
    /\ r_then \in {"ok"} \cup (ExcKinds \ {"IntegrityError"})
    /\ retries = 0 /\ calls = 0 /\ backoffs = 0
    /\ r_pc = "loop" /\ r_out = "none"

NextRetry ==
    \/ Attempt /\ UNCHANGED <<svars, ivars, evars, gvars, qvars>>
    \/ FallThrough /\ UNCHANGED <<svars, ivars, evars, gvars, qvars>>

SpecRetry == InitRetry /\ [][NextRetry]_vars

\* ----------------------------------------------- concurrent node_insert

\* psqlgraph.py:228  def node_insert(self, node, session=None): the keyword
\* arguments the function accepts; it is not decorated with @retryable
node_insert_keywords == {"node", "session"}

\* a call with keywords kws is bound to the parameters, or raises TypeError
binds(kws, accepted) == kws \subseteq accepted

\* the node table's primary key: a flush that inserts a second row with a
\* committed id raises IntegrityError
pk_conflict(rows, id) == rows[id] >= 1

\* context c calls driver.node_insert(node=..., [max_retries=3]) inside a
\* scope: psqlgraph.py:228-230, session_scope() and local.add(node)
InsertCall(c) ==
    /\ i_pc[c] = "start"
    /\ IF binds({"node"} \cup (IF i_kw THEN {"max_retries"} ELSE {}),
                node_insert_keywords)
       THEN /\ i_pc' = [i_pc EXCEPT ![c] = "staged"]
            /\ UNCHANGED i_res
       ELSE /\ i_pc' = [i_pc EXCEPT ![c] = "done"]
            /\ i_res' = [i_res EXCEPT ![c] = "TypeError"]
    /\ UNCHANGED <<i_kw, i_id, i_rows>>

\* the scope that owns c's session is left normally: psqlgraph.py:139-151,
\* local.commit() flushes the INSERT; a refused commit is rolled back and
\* its IntegrityError reaches the caller
InsertCommit(c) ==
    /\ i_pc[c] = "staged"
    /\ i_pc' = [i_pc EXCEPT ![c] = "done"]
    /\ IF pk_conflict(i_rows, i_id[c])
       THEN /\ i_res' = [i_res EXCEPT ![c] = "IntegrityError"]
            /\ UNCHANGED i_rows
       ELSE /\ i_res' = [i_res EXCEPT ![c] = "ok"]
            /\ i_rows' = [i_rows EXCEPT ![i_id[c]] = @ + 1]
    /\ UNCHANGED <<i_kw, i_id>>

\* the body of the scope that owns c's session raises after the insert:
\* psqlgraph.py:143-146, local.rollback()
InsertRollback(c) ==
    /\ i_pc[c] = "staged"
    /\ i_pc' = [i_pc EXCEPT ![c] = "done"]
    /\ i_res' = [i_res EXCEPT ![c] = "rolledback"]
    /\ UNCHANGED <<i_kw, i_id, i_rows>>

InitInsert ==
    /\ SIdle
    /\ RIdle
    /\ EIdle
    /\ GIdle
    /\ QIdle
    /\ i_kw \in BOOLEAN
    /\ i_id \in [Contexts -> NodeIds]
    /\ i_pc = [c \in Contexts |-> "start"]
    /\ i_res = [c \in Contexts |-> "none"]
    /\ i_rows \in [NodeIds -> {0, 1}]

NextInsert ==
    \/ (\E c \in Contexts : InsertCall(c)) /\ UNCHANGED <<svars, rvars, evars, gvars, qvars>>
    \/ (\E c \in Contexts : InsertCommit(c)) /\ UNCHANGED <<svars, rvars, evars, gvars, qvars>>
    \/ (\E c \in Contexts : InsertRollback(c)) /\ UNCHANGED <<svars, rvars, evars, gvars, qvars>>

SpecInsert == InitInsert /\ [][NextInsert]_vars


\* ------------------------------------------------- one node or one edge

\* faulty variant: the given mapping replaces the old one
dict_update_replaces(d, u) == u

\* psqlgraph.py:234-235, 241, 340-342  item assignment for every key of the
\* given mapping and dict.update: given keys overwritten, the others kept
dict_update(d, u) == [k \in DOMAIN d |-> IF u[k] # None THEN u[k] ELSE d[k]]

\* spec 4.3: the tracked fields of a pending instance differ from the
\* previously committed values
changed(row, obj) == row.props # obj.props \/ row.sysan # obj.sysan

\* faulty variant: the snapshot is added twice
edge_snapshot_existing_twice(self, old_props, old_sysan) ==
    <<Entity(self.label, self.acl, old_props, old_sysan),
      Entity(self.label, self.acl, old_props, old_sysan)>>

\* edge.py:152-156  Edge._snapshot_existing: the history records added to the
\* session, built from the old mappings and the instance's own acl and label
edge_snapshot_existing(self, old_props, old_sysan) ==
    <<Entity(self.label, self.acl, old_props, old_sysan)>>

\* spec 3 (VoidedNode): the history record of a node carries the
\* pre-mutation label, acl, properties and system_annotations
node_snapshot_existing(row) ==
    <<Entity(row.label, row.acl, row.props, row.sysan)>>

\* spec 4.3: the listener psqlgraph.py:37 registers for before_flush; one
\* snapshot for a pending instance whose tracked fields changed, none otherwise
receive_before_flush(kind, rows, obj) ==
    IF \E row \in rows : changed(row, obj)
    THEN LET row == CHOOSE r \in rows : changed(r, obj)
         IN  IF kind = "edge"
             THEN edge_snapshot_existing(obj, row.props, row.sysan)
             ELSE node_snapshot_existing(row)
    ELSE <<>>

\* faulty variant: a second row is inserted beside the stored one
merge_adds_row(rows, obj) == rows \cup {obj}

\* session.merge(instance) and the commit: the row with the instance's
\* primary key takes the instance's state, or is inserted when there is none
merge(rows, obj) == {obj}

\* faulty variant: the setter overwrites the label
edge_label_setter_assigns(self, label) ==
    [raised |-> "none", self |-> [self EXCEPT !.label = label]]

\* edge.py:163-172  Edge.label setter: raises when the label is set and
\* differs from the given one; it never assigns
edge_label_setter(self, label) ==
    [raised |-> IF self.label # "None" /\ self.label # label
                THEN "AttributeError" ELSE "none",
     self |-> self]

\* spec 4.1: label assignment of a node is write-once, same rule
node_label_setter(self, label) ==
    [raised |-> IF self.label # "None" /\ self.label # label
                THEN "AttributeError" ELSE "none",
     self |-> self]

\* psqlgraph.py:232-242 node_update and 337-344 edge_update on an instance
update(self, sysan, acl, props) ==
    [self EXCEPT !.sysan = dict_update(@, sysan),
                 !.acl = IF acl # "None" THEN acl ELSE @,
                 !.props = dict_update(@, props)]

\* psqlgraph.py:285-291  node_clobber: each supplied argument replaces the
\* field as a whole
clobber(self, acl, sg, sysan, pg, props) ==
    [self EXCEPT !.acl = IF acl # "None" THEN acl ELSE @,
                 !.sysan = IF sg THEN sysan ELSE @,
                 !.props = IF pg THEN props ELSE @]

\* spec 3 (Lifecycle), 4.6: a node built from the given label, acl,
\* system_annotations and properties (the id is the entity's)
PolyNode(label, acl, sysan, props) == Entity(label, acl, props, sysan)

\* psqlgraph.py:214-222  node_merge: the stored node updated, or a new node
\* built by PolyNode(node_id, label, acl, system_annotations, properties)
node_merge(rows, label, acl, sysan, props) ==
    IF rows # {}
    THEN update(CHOOSE r \in rows : TRUE, sysan, acl, props)
    ELSE PolyNode(label, acl, sysan, props)

\* query.py:150-159 props, 202-207 sysan: JSON containment, every key of
\* the match has the same value in the stored mapping
contains(d, m) == \A k \in DOMAIN m : m[k] # None => d[k] = m[k]

\* the id of the one node
EntityId == "n1"

\* psqlgraph.py:247-261  node_lookup(node_id, property_matches, label,
\* system_annotation_matches) over the live nodes: the filters it applies
\* are ids (query.py:112-120), props and sysan
\* (pg, pm: property_matches is supplied and its value; sg, sm likewise)
node_lookup(rows, node_id, pg, pm, label, sg, sm) ==
    LET q0 == rows
        q1 == IF node_id # "None" THEN {r \in q0 : EntityId = node_id} ELSE q0
        q2 == IF pg THEN {r \in q1 : contains(r.props, pm)} ELSE q1
        q3 == IF sg THEN {r \in q2 : contains(r.sysan, sm)} ELSE q2
    IN  q3

Entities == {Entity(l, a, p, s) : l \in Labels, a \in Acls,
                                  p \in PropDicts, s \in SysanDicts}

\* the scope of an operation commits: the listener runs in the flush, then
\* the pending instance is written
Flushed(obj) ==
    /\ e_new' = receive_before_flush(e_kind, e_rows, obj)
    /\ e_rows' = merge(e_rows, obj)
    /\ e_obj' = obj

\* psqlgraph.py:228-230 node_insert(node), 329-335 edge_insert(edge) of the
\* instance the caller built; the primary key refuses a second row
EInsert ==
    /\ e_new' = <<>>
    /\ e_rows' = IF e_rows = {} THEN {e_obj} ELSE e_rows
    /\ e_last' = ECall("insert", "None", "None", FALSE, NoProps, FALSE, NoSysan,
                       IF e_rows = {} THEN "none" ELSE "IntegrityError")
    /\ UNCHANGED <<e_kind, e_obj>>

\* the caller assigns instance.acl; nothing is flushed
ESetAcl(acl) ==
    /\ e_obj' = [e_obj EXCEPT !.acl = acl]
    /\ e_new' = <<>>
    /\ e_last' = ECall("set_acl", "None", acl, FALSE, NoProps, FALSE, NoSysan, "none")
    /\ UNCHANGED <<e_kind, e_rows>>

\* the caller assigns instance.label
ESetLabel(label) ==
    LET r == IF e_kind = "edge" THEN edge_label_setter(e_obj, label)
                                ELSE node_label_setter(e_obj, label)
    IN  /\ e_obj' = r.self
        /\ e_new' = <<>>
        /\ e_last' = ECall("set_label", label, "None", FALSE, NoProps, FALSE,
                           NoSysan, r.raised)
        /\ UNCHANGED <<e_kind, e_rows>>

\* psqlgraph.py:232-242 node_update(node, system_annotations, acl,
\* properties), 337-344 edge_update(edge, system_annotations, properties)
EUpdate(sysan, acl, props) ==
    /\ e_kind = "edge" => acl = "None"
    /\ Flushed(update(e_obj, sysan, acl, props))
    /\ e_last' = ECall("update", "None", acl, TRUE, props, TRUE, sysan, "none")
    /\ UNCHANGED e_kind

\* psqlgraph.py:278-292 node_clobber(node=..., acl, system_annotations,
\* properties)
EClobber(acl, sg, sysan, pg, props) ==
    /\ e_kind = "node"
    /\ ~sg => sysan = NoSysan
    /\ ~pg => props = NoProps
    /\ Flushed(clobber(e_obj, acl, sg, sysan, pg, props))
    /\ e_last' = ECall("clobber", "None", acl, pg, props, sg, sysan, "none")
    /\ UNCHANGED e_kind

\* psqlgraph.py:209-226 node_merge(node_id=..., acl, label,
\* system_annotations, properties); the caller keeps the returned node
EMerge(label, acl, sysan, props) ==
    /\ e_kind = "node"
    /\ Flushed(node_merge(e_rows, label, acl, sysan, props))
    /\ e_last' = ECall("merge", label, acl, TRUE, props, TRUE, sysan, "none")
    /\ UNCHANGED e_kind

\* psqlgraph.py:319-327 node_delete, 374-376 edge_delete: the live row is
\* deleted; an entity that is not stored cannot be deleted
EDelete ==
    /\ e_rows' = {}
    /\ e_new' = <<>>
    /\ e_last' = ECall("delete", "None", "None", FALSE, NoProps, FALSE, NoSysan,
                       IF e_rows # {} THEN "none"
                       ELSE IF e_kind = "node" THEN "NoResultFound"
                       ELSE "InvalidRequestError")
    /\ UNCHANGED <<e_kind, e_obj>>

InitEntity ==
    /\ SIdle
    /\ RIdle
    /\ IIdle
    /\ GIdle
    /\ QIdle
    /\ e_kind \in {"node", "edge"}
    /\ e_obj = Entity("A", "[]", NoProps, NoSysan)
    /\ e_rows = {}
    /\ e_new = <<>>
    /\ e_last = NoCall

\* every operation is called outside any other scope, so its own scope
\* commits; node_merge is given the stored node's label when the node exists
\* (psqlgraph.py:218-222 uses label only to build a new node)
NextEntity ==
    \/ EInsert /\ UNCHANGED <<svars, rvars, ivars, gvars, qvars>>
    \/ (\E a \in Acls : ESetAcl(a)) /\ UNCHANGED <<svars, rvars, ivars, gvars, qvars>>
    \/ (\E l \in Labels : ESetLabel(l)) /\ UNCHANGED <<svars, rvars, ivars, gvars, qvars>>
    \/ (\E s \in SysanDicts, a \in Acls \cup {"None"}, p \in PropDicts :
            EUpdate(s, a, p)) /\ UNCHANGED <<svars, rvars, ivars, gvars, qvars>>
    \/ (\E a \in Acls \cup {"None"}, sg, pg \in BOOLEAN, s \in SysanDicts,
            p \in PropDicts : EClobber(a, sg, s, pg, p))
         /\ UNCHANGED <<svars, rvars, ivars, gvars, qvars>>
    \/ (\E l \in Labels, a \in Acls \cup {"None"}, s \in SysanDicts,
            p \in PropDicts : (\A r \in e_rows : l = r.label) /\ EMerge(l, a, s, p))
         /\ UNCHANGED <<svars, rvars, ivars, gvars, qvars>>
    \/ EDelete /\ UNCHANGED <<svars, rvars, ivars, gvars, qvars>>

SpecEntity == InitEntity /\ [][NextEntity]_vars

\* ---------------------------------------------------------- stored graph

\* everything but the stored graph
ovars == <<svars, rvars, ivars, evars>>

\* the values property k1 takes in the stored graph
GVals == {1, 2}

label_of(e) == e[1]
src_id_of(e) == e[2]
dst_id_of(e) == e[3]

\* the live edges
live_edges(edges) == {e \in EdgeKeys : edges[e] # None}

\* a history record: the snapshot of a node or an edge with its old value
Voided(kind, key, old) == [kind |-> kind, key |-> key, k1 |-> old]

\* faulty variant: the new history record replaces the stored ones
snapshot_existing_overwrites(hist, kind, key, old) == {Voided(kind, key, old)}

\* edge.py:152-156  _snapshot_existing: session.add(voided) adds one record
\* to the history table and leaves the others
snapshot_existing(hist, kind, key, old) == hist \cup {Voided(kind, key, old)}

\* spec 4.3: the history table after a flush that writes value new over a
\* row with value old (None: there was no row)
flush_history(hist, kind, key, old, new) ==
    IF old # None /\ old # new
    THEN snapshot_existing(hist, kind, key, old)
    ELSE hist

\* faulty variant: the foreign keys take no action when a node is deleted
IDColumn_no_action(edges, node_id) == edges

\* edge.py:10-17  IDColumn: src_id and dst_id are foreign keys to node_id
\* with ondelete="CASCADE": deleting a node deletes the edges that refer to it
IDColumn_cascade(edges, node_id) ==
    [e \in EdgeKeys |-> IF src_id_of(e) = node_id \/ dst_id_of(e) = node_id
                        THEN None ELSE edges[e]]

\* psqlgraph.py:228-230  node_insert of a node with a new id
GNodeInsert(n, v) ==
    /\ g_nodes[n] = None
    /\ g_nodes' = [g_nodes EXCEPT ![n] = v]
    /\ g_del' = NoDelete
    /\ UNCHANGED <<g_edges, g_hist>>

\* psqlgraph.py:209-226  node_merge(node_id=n, properties={k1: v})
GNodeMerge(n, v) ==
    /\ g_hist' = flush_history(g_hist, "node", n, g_nodes[n], v)
    /\ g_nodes' = [g_nodes EXCEPT ![n] = v]
    /\ g_del' = NoDelete
    /\ UNCHANGED g_edges

\* psqlgraph.py:232-242  node_update(node, properties={k1: v}) of a stored node
GNodeUpdate(n, v) ==
    /\ g_nodes[n] # None
    /\ g_hist' = flush_history(g_hist, "node", n, g_nodes[n], v)
    /\ g_nodes' = [g_nodes EXCEPT ![n] = v]
    /\ g_del' = NoDelete
    /\ UNCHANGED g_edges

\* psqlgraph.py:278-292  node_clobber(node_id=n, properties={k1: v})
GNodeClobber(n, v) ==
    /\ g_nodes[n] # None
    /\ g_hist' = flush_history(g_hist, "node", n, g_nodes[n], v)
    /\ g_nodes' = [g_nodes EXCEPT ![n] = v]
    /\ g_del' = NoDelete
    /\ UNCHANGED g_edges

\* psqlgraph.py:319-327  node_delete(node_id=n): the node's row is deleted
\* and the foreign keys of the edge tables act
GNodeDelete(n) ==
    /\ g_nodes[n] # None
    /\ g_nodes' = [g_nodes EXCEPT ![n] = None]
    /\ g_edges' = IDColumn_cascade(g_edges, n)
    /\ g_del' = [node |-> n, of |-> "None",
                 edges |-> live_edges(g_edges) \ live_edges(g_edges')]
    /\ UNCHANGED g_hist

\* psqlgraph.py:329-335  edge_insert: the commit checks the primary key and
\* the deferred foreign keys
GEdgeInsert(e, v) ==
    /\ g_edges[e] = None
    /\ g_nodes[src_id_of(e)] # None /\ g_nodes[dst_id_of(e)] # None
    /\ g_edges' = [g_edges EXCEPT ![e] = v]
    /\ g_del' = NoDelete
    /\ UNCHANGED <<g_nodes, g_hist>>

\* psqlgraph.py:337-344  edge_update(edge, properties={k1: v}) of a stored edge
GEdgeUpdate(e, v) ==
    /\ g_edges[e] # None
    /\ g_hist' = flush_history(g_hist, "edge", e, g_edges[e], v)
    /\ g_edges' = [g_edges EXCEPT ![e] = v]
    /\ g_del' = NoDelete
    /\ UNCHANGED g_nodes

\* psqlgraph.py:374-376  edge_delete(edge)
GEdgeDelete(e) ==
    /\ g_edges[e] # None
    /\ g_edges' = [g_edges EXCEPT ![e] = None]
    /\ g_del' = NoDelete
    /\ UNCHANGED <<g_nodes, g_hist>>

\* psqlgraph.py:380-381  the first loop: every edge the query
\* filter(Edge.src_id == node_id) returns is deleted
delete_by_src_id(edges, node_id) ==
    [e \in EdgeKeys |-> IF src_id_of(e) = node_id THEN None ELSE edges[e]]

\* faulty variant: the second loop is missing
delete_by_dst_id_skipped(edges, node_id) == edges

\* psqlgraph.py:382-383  the second loop: every edge the query
\* filter(Edge.dst_id == node_id) returns is deleted
delete_by_dst_id(edges, node_id) ==
    [e \in EdgeKeys |-> IF dst_id_of(e) = node_id THEN None ELSE edges[e]]

\* psqlgraph.py:378-383  edge_delete_by_node_id(n): the edges with src_id n,
\* then the edges with dst_id n, are deleted
GEdgeDeleteByNodeId(n) ==
    /\ g_edges' = delete_by_dst_id(delete_by_src_id(g_edges, n), n)
    /\ g_del' = [node |-> "None", of |-> n,
                 edges |-> live_edges(g_edges) \ live_edges(g_edges')]
    /\ UNCHANGED <<g_nodes, g_hist>>

\* query.py:11-222  the methods class GraphQuery defines
GraphQuery ==
    {"with_edge_to_node", "with_edge_from_node", "src", "has_edges",
     "has_no_edges", "path_out", "path_in", "ids", "not_ids", "labels",
     "not_labels", "props", "not_props", "prop_in", "prop", "null_props",
     "sysan", "not_sysan", "not_sysan_in"}

\* query.py:3, 7  the methods of its base class Query that the driver calls
Query == {"filter", "scalar", "one", "count", "yield_per"}

\* attribute lookup on a query object finds the method or raises
\* AttributeError
hasattr(name) == name \in GraphQuery \cup Query

\* psqlgraph.py:351-364  edge_lookup(src_id, dst_id, label) inside an active
\* scope: the exception it raises and the live edges the query selects
edge_lookup(edges, src_id, dst_id, label) ==
    IF src_id # "None" /\ ~hasattr("src_ids")
    THEN [raised |-> "AttributeError", result |-> {}]
    ELSE IF dst_id # "None" /\ ~hasattr("dst_ids")
    THEN [raised |-> "AttributeError", result |-> {}]
    ELSE [raised |-> "none",
          result |-> {e \in live_edges(edges) :
                        /\ src_id # "None" => src_id_of(e) = src_id
                        /\ dst_id # "None" => dst_id_of(e) = dst_id
                        /\ label # "None" => label_of(e) = label}]

InitGraph ==
    /\ SIdle
    /\ RIdle
    /\ IIdle
    /\ EIdle
    /\ GIdle
    /\ QIdle

\* every operation is called outside any other scope, so its own scope commits
NextGraph ==
    \/ (\E n \in NodeIds, v \in GVals : GNodeInsert(n, v)) /\ UNCHANGED <<ovars, qvars>>
    \/ (\E n \in NodeIds, v \in GVals : GNodeMerge(n, v)) /\ UNCHANGED <<ovars, qvars>>
    \/ (\E n \in NodeIds, v \in GVals : GNodeUpdate(n, v)) /\ UNCHANGED <<ovars, qvars>>
    \/ (\E n \in NodeIds, v \in GVals : GNodeClobber(n, v)) /\ UNCHANGED <<ovars, qvars>>
    \/ (\E n \in NodeIds : GNodeDelete(n)) /\ UNCHANGED <<ovars, qvars>>
    \/ (\E e \in EdgeKeys, v \in GVals : GEdgeInsert(e, v)) /\ UNCHANGED <<ovars, qvars>>
    \/ (\E e \in EdgeKeys, v \in GVals : GEdgeUpdate(e, v)) /\ UNCHANGED <<ovars, qvars>>
    \/ (\E e \in EdgeKeys : GEdgeDelete(e)) /\ UNCHANGED <<ovars, qvars>>
    \/ (\E n \in NodeIds : GEdgeDeleteByNodeId(n)) /\ UNCHANGED <<ovars, qvars>>

SpecGraph == InitGraph /\ [][NextGraph]_vars

\* ---------------------------------------------------------- edge equality

\* the edge classes: Edge2 derives from Edge1, Edge3 from neither
EdgeTypes == {"Edge1", "Edge2", "Edge3"}

\* the classes an instance of the class is an instance of
bases(type) == IF type = "Edge2" THEN {"Edge2", "Edge1"} ELSE {type}

\* edge.py:110  isinstance(other, self.__class__)
isinstance(other, class) == class \in bases(other.type)

\* the text of a Python bool
bool(b) == IF b THEN "True" ELSE "False"

\* edge.py:108-113
__eq__(self, other) ==
    /\ isinstance(other, self.type)
    /\ self.src_id = other.src_id
    /\ self.dst_id = other.dst_id

\* edge.py:115-116
__ne__(self, other) == ~ __eq__(self, other)

\* the edges under comparison
EdgeObjs == {EdgeObj(t, s, d, k) : t \in EdgeTypes, s \in NodeIds, d \in NodeIds, k \in GVals}

\* a == b, b == a and a != b are evaluated
Compare ==
    /\ eq_res = NoResult
    /\ eq_res' = [eq |-> bool(__eq__(eq_a, eq_b)),
                  qe |-> bool(__eq__(eq_b, eq_a)),
                  ne |-> bool(__ne__(eq_a, eq_b))]
    /\ UNCHANGED <<eq_a, eq_b>>

InitEq ==
    /\ SIdle
    /\ RIdle
    /\ IIdle
    /\ EIdle
    /\ GIdle
    /\ QueryIdle
    /\ eq_a \in EdgeObjs
    /\ eq_b \in EdgeObjs
    /\ eq_res = NoResult

NextEq ==
    \/ Compare /\ UNCHANGED <<ovars, gvars, q_nodes, q_edges, q_query, q_last>>

SpecEq == InitEq /\ [][NextEq]_vars

\* ----------------------------------------------------------- GraphQuery

\* the longest label list given to path_out and path_in
MaxPath == 2

\* the label lists of at most MaxPath labels
LabelLists == UNION {[1..k -> Labels] : k \in 0..MaxPath}

\* session.query(Node): one row per stored node
query == [none |-> FALSE, rows |-> {<<n, n>> : n \in NodeIds}, at |-> "root"]

\* the entity of a row that filter criteria on Node refer to: the root, or the
\* alias of the last aliased join
entity(q, row) == IF q.at = "root" THEN row[1] ELSE row[2]

\* the root nodes a query returns
result(q) == {row[1] : row \in q.rows}

\* Query.filter: keeps the rows whose entity is one of the nodes on which the
\* criterion is true; a criterion on the columns of a row without a match is
\* not true
filter(q, nodes) == [q EXCEPT !.rows = {row \in @ : entity(q, row) \in nodes}]

\* the nodes joined to node n over edges_out and dst ("out") or over edges_in
\* and src ("in")
joined(n, dir) ==
    IF dir = "out" THEN {dst_id_of(e) : e \in {x \in q_edges : src_id_of(x) = n}}
    ELSE {src_id_of(e) : e \in {x \in q_edges : dst_id_of(x) = n}}

\* query.py:87-89, 106-108  outerjoin(..., aliased=True, from_joinpoint=True):
\* joins from the current entity, keeps a row without a match, and makes the
\* joined alias the entity later criteria refer to
outerjoin(q, dir) ==
    LET match(row) == IF entity(q, row) = NULL THEN {}
                      ELSE joined(entity(q, row), dir)
    IN  [q EXCEPT !.rows = UNION {IF match(row) = {} THEN {<<row[1], NULL>>}
                                  ELSE {<<row[1], m>> : m \in match(row)} :
                                  row \in q.rows},
                  !.at = "joined"]

\* query.py:90, 109  Query.reset_joinpoint
reset_joinpoint(q) == [q EXCEPT !.at = "root"]

\* query.py:86-91, 105-110  the loop of path_out (dir "out") and path_in
\* (dir "in"): with reset the return statement is inside the loop body, and
\* without it the loop ends and the method returns None
RECURSIVE path(_, _, _, _)
path(self, labels, reset, dir) ==
    IF labels = <<>> THEN PyNone
    ELSE LET hop == filter(outerjoin(self, dir),
                           {n \in NodeIds : q_nodes[n].label = Head(labels)})
         IN  IF reset THEN reset_joinpoint(hop)
             ELSE path(hop, Tail(labels), reset, dir)

\* query.py:74-91
path_out(self, labels, reset) == path(self, labels, reset, "out")

\* query.py:93-110
path_in(self, labels, reset) == path(self, labels, reset, "in")

\* query.py:11-29  the sources of the edges with the label to the target node
with_edge_to_node(self, edge_label, target_node) ==
    filter(self, {n \in NodeIds : \E e \in q_edges :
        label_of(e) = edge_label /\ dst_id_of(e) = target_node /\ src_id_of(e) = n})

\* query.py:31-50  the destinations of the edges with the label from the source node
with_edge_from_node(self, edge_label, source_node) ==
    filter(self, {n \in NodeIds : \E e \in q_edges :
        label_of(e) = edge_label /\ src_id_of(e) = source_node /\ dst_id_of(e) = n})

\* query.py:59-64
has_edges(self) ==
    filter(self, {n \in NodeIds : joined(n, "in") # {} \/ joined(n, "out") # {}})

\* query.py:66-72
has_no_edges(self) ==
    filter(filter(self, {n \in NodeIds : ~ (joined(n, "in") # {})}),
           {n \in NodeIds : ~ (joined(n, "out") # {})})

\* query.py:112-120  a str is compared for equality, a list for membership;
\* isstr: the argument is a str, the one element of the set
ids(self, isstr, v) ==
    IF isstr THEN filter(self, {n \in NodeIds : {n} = v})
    ELSE filter(self, {n \in NodeIds : n \in v})

\* query.py:122-126
not_ids(self, isstr, v) ==
    IF isstr THEN filter(self, {n \in NodeIds : {n} # v})
    ELSE filter(self, {n \in NodeIds : ~ (n \in v)})

\* query.py:129-137
labels(self, isstr, v) ==
    IF isstr THEN filter(self, {n \in NodeIds : {q_nodes[n].label} = v})
    ELSE filter(self, {n \in NodeIds : q_nodes[n].label \in v})

\* query.py:139-147
not_labels(self, isstr, v) ==
    IF isstr THEN filter(self, {n \in NodeIds : {q_nodes[n].label} # v})
    ELSE filter(self, {n \in NodeIds : ~ (q_nodes[n].label \in v)})

\* the properties and the system annotations of a stored node
properties(n) == [k \in {"k1"} |-> q_nodes[n].k1]
system_annotations(n) == [k \in {"s"} |-> q_nodes[n].s]

\* the dicts and value lists given to the property and annotation filters
QPropDicts == [{"k1"} -> {None, 1, 2}]
QSysanDicts == [{"s"} -> {None, 1}]

\* str(v) of a value and .astext of a stored JSON value: the decimal text,
\* NULL for a missing key
str(v) == IF v = 1 THEN "1" ELSE IF v = 2 THEN "2" ELSE NULL

\* query.py:150-159
props(self, d) == filter(self, {n \in NodeIds : contains(properties(n), d)})

\* query.py:161-170
not_props(self, d) == filter(self, {n \in NodeIds : ~ contains(properties(n), d)})

\* query.py:172-181
prop_in(self, key, values) ==
    filter(self, {n \in NodeIds : /\ str(properties(n)[key]) # NULL
                            /\ str(properties(n)[key]) \in {str(v) : v \in values}})

\* query.py:202-207
sysan(self, d) == filter(self, {n \in NodeIds : contains(system_annotations(n), d)})

\* query.py:209-214
not_sysan(self, d) == filter(self, {n \in NodeIds : ~ contains(system_annotations(n), d)})

\* query.py:216-222  the criterion is not negated
not_sysan_in(self, key, values) ==
    filter(self, {n \in NodeIds : /\ str(system_annotations(n)[key]) # NULL
                            /\ str(system_annotations(n)[key]) \in {str(v) : v \in values}})

\* a method of the query is called and returns res; a method called on None
\* raises AttributeError
QApply(op, lbls, reset, res) ==
    /\ ~ q_query.none
    /\ q_query' = res
    /\ q_last' = QCall(op, lbls, reset, q_query)
    /\ UNCHANGED <<q_nodes, q_edges>>

\* psqlgraph.py:153-159  nodes(): a new query over the nodes
QNodes ==
    /\ q_query' = query
    /\ q_last' = QCall("nodes", <<>>, FALSE, PyNone)
    /\ UNCHANGED <<q_nodes, q_edges>>

QIds(isstr, v) == QApply("ids", <<>>, FALSE, ids(q_query, isstr, v))
QNotIds(isstr, v) == QApply("not_ids", <<>>, FALSE, not_ids(q_query, isstr, v))
QLabels(isstr, v) == QApply("labels", <<>>, FALSE, labels(q_query, isstr, v))
QNotLabels(isstr, v) == QApply("not_labels", <<>>, FALSE, not_labels(q_query, isstr, v))
QProps(d) == QApply("props", <<>>, FALSE, props(q_query, d))
QNotProps(d) == QApply("not_props", <<>>, FALSE, not_props(q_query, d))
QPropIn(values) == QApply("prop_in", <<>>, FALSE, prop_in(q_query, "k1", values))
QSysan(d) == QApply("sysan", <<>>, FALSE, sysan(q_query, d))
QNotSysan(d) == QApply("not_sysan", <<>>, FALSE, not_sysan(q_query, d))
QNotSysanIn(values) == QApply("not_sysan_in", <<>>, FALSE, not_sysan_in(q_query, "s", values))
QWithEdgeToNode(l, n) == QApply("with_edge_to_node", <<>>, FALSE, with_edge_to_node(q_query, l, n))
QWithEdgeFromNode(l, n) == QApply("with_edge_from_node", <<>>, FALSE, with_edge_from_node(q_query, l, n))
QHasEdges == QApply("has_edges", <<>>, FALSE, has_edges(q_query))
QHasNoEdges == QApply("has_no_edges", <<>>, FALSE, has_no_edges(q_query))
QPathOut(lbls, reset) == QApply("path_out", lbls, reset, path_out(q_query, lbls, reset))
QPathIn(lbls, reset) == QApply("path_in", lbls, reset, path_in(q_query, lbls, reset))

\* the arguments of ids and not_ids, of labels and not_labels: a str or a list
IdArgs == {<<TRUE, {n}>> : n \in NodeIds} \cup {<<FALSE, v>> : v \in SUBSET NodeIds}
LabelArgs == {<<TRUE, {l}>> : l \in Labels} \cup {<<FALSE, v>> : v \in SUBSET Labels}

\* the labels of the edge classes
EdgeLabels == {label_of(e) : e \in QEdgeKeys}

\* the stored nodes: n1 has property k1 = 1 and annotation s = 1, n2 has no
\* annotation
QNodeTables ==
    {[n \in NodeIds |-> [label |-> l[n],
                         k1 |-> IF n = "n1" THEN 1 ELSE k,
                         s |-> IF n = "n1" THEN 1 ELSE None]] :
        l \in [NodeIds -> Labels], k \in GVals}

InitQuery ==
    /\ SIdle
    /\ RIdle
    /\ IIdle
    /\ EIdle
    /\ GIdle
    /\ EqIdle
    /\ q_nodes \in QNodeTables
    /\ q_edges \in SUBSET QEdgeKeys
    /\ q_query = query
    /\ q_last = QCall("nodes", <<>>, FALSE, PyNone)

NextQuery ==
    \/ QNodes /\ UNCHANGED <<ovars, gvars, eq_a, eq_b, eq_res>>
    \/ (\E a \in IdArgs : QIds(a[1], a[2])) /\ UNCHANGED <<ovars, gvars, eq_a, eq_b, eq_res>>
    \/ (\E a \in IdArgs : QNotIds(a[1], a[2])) /\ UNCHANGED <<ovars, gvars, eq_a, eq_b, eq_res>>
    \/ (\E a \in LabelArgs : QLabels(a[1], a[2])) /\ UNCHANGED <<ovars, gvars, eq_a, eq_b, eq_res>>
    \/ (\E a \in LabelArgs : QNotLabels(a[1], a[2])) /\ UNCHANGED <<ovars, gvars, eq_a, eq_b, eq_res>>
    \/ (\E d \in QPropDicts : QProps(d)) /\ UNCHANGED <<ovars, gvars, eq_a, eq_b, eq_res>>
    \/ (\E d \in QPropDicts : QNotProps(d)) /\ UNCHANGED <<ovars, gvars, eq_a, eq_b, eq_res>>
    \/ (\E v \in SUBSET GVals : QPropIn(v)) /\ UNCHANGED <<ovars, gvars, eq_a, eq_b, eq_res>>
    \/ (\E d \in QSysanDicts : QSysan(d)) /\ UNCHANGED <<ovars, gvars, eq_a, eq_b, eq_res>>
    \/ (\E d \in QSysanDicts : QNotSysan(d)) /\ UNCHANGED <<ovars, gvars, eq_a, eq_b, eq_res>>
    \/ (\E v \in SUBSET GVals : QNotSysanIn(v)) /\ UNCHANGED <<ovars, gvars, eq_a, eq_b, eq_res>>
    \/ (\E l \in EdgeLabels, n \in NodeIds : QWithEdgeToNode(l, n))
         /\ UNCHANGED <<ovars, gvars, eq_a, eq_b, eq_res>>
    \/ (\E l \in EdgeLabels, n \in NodeIds : QWithEdgeFromNode(l, n))
         /\ UNCHANGED <<ovars, gvars, eq_a, eq_b, eq_res>>
    \/ QHasEdges /\ UNCHANGED <<ovars, gvars, eq_a, eq_b, eq_res>>
    \/ QHasNoEdges /\ UNCHANGED <<ovars, gvars, eq_a, eq_b, eq_res>>
    \/ (\E ls \in LabelLists, r \in BOOLEAN : QPathOut(ls, r))
         /\ UNCHANGED <<ovars, gvars, eq_a, eq_b, eq_res>>
    \/ (\E ls \in LabelLists, r \in BOOLEAN : QPathIn(ls, r))
         /\ UNCHANGED <<ovars, gvars, eq_a, eq_b, eq_res>>

SpecQuery == InitQuery /\ [][NextQuery]_vars

\* ------------------------------------------------------ read entry points

\* psqlgraph.py:153-207, 247-264, 346-364  the read entry points
ReadOps ==
    {"nodes", "edges", "voided_nodes", "voided_edges", "get_nodes", "get_edges",
     "get_node_count", "get_edge_count", "node_lookup", "node_lookup_one",
     "edge_lookup", "edge_lookup_one"}

\* psqlgraph.py:346-364  the entry points that pass src_id and dst_id on to
\* edge_lookup
EdgeLookups == {"edge_lookup", "edge_lookup_one"}

\* a read entry point is called: nodes(), edges(), voided_nodes() or
\* voided_edges() opens `session_scope(must_inherit=True)`, returns
\* local.query(...) from inside the with block, and the scope is left; the
\* caller then applies its filters to the query.  src_id and dst_id are the
\* arguments of edge_lookup, "None" when not given.
Read(entry, src_id, dst_id) ==
    /\ exc = "none"
    /\ entry \notin EdgeLookups => (src_id = "None" /\ dst_id = "None")
    /\ IF must_inherit_fails(TRUE)
       THEN /\ exc' = "Exception"      \* RuntimeError
            /\ last' = [NoOp EXCEPT !.op = "read", !.item = entry,
                                    !.must_inherit = TRUE, !.prev = ctx,
                                    !.raised = "RuntimeError"]
            /\ UNCHANGED <<sessions, db>>
       ELSE LET sel == setup_local(None, TRUE)
                f == [session |-> None, local |-> sel.local,
                      inherited |-> sel.inherited, saved |-> ctx]
                ms == exit_calls(f, "none", TRUE)
                st == Run([ss |-> sessions, d |-> db], ms, TRUE)
                raised == IF entry \in EdgeLookups
                          THEN edge_lookup(g_edges, src_id, dst_id, "None").raised
                          ELSE "none"
            IN
            /\ sel.local \in 1..Len(sessions)
            /\ sessions' = st.ss
            /\ db' = st.d
            /\ exc' = IF raised = "none" THEN "none" ELSE "Exception"
            /\ last' = [NoOp EXCEPT !.op = "read", !.item = entry,
                                    !.local = IF raised = "none" THEN sel.local ELSE None,
                                    !.inherited = sel.inherited,
                                    !.must_inherit = TRUE, !.prev = ctx,
                                    !.ms = ms, !.raised = raised]
    /\ UNCHANGED <<stack, ctx>>

InitRead ==
    /\ sessions = <<>>
    /\ db = {}
    /\ stack = <<>>
    /\ ctx = None
    /\ exc = "none"
    /\ last = NoOp
    /\ RIdle
    /\ IIdle
    /\ EIdle
    /\ GIdle
    /\ QIdle

\* scopes without an explicit session are entered and left, nodes are added
\* in them, and the read entry points are called inside and outside of them
NextRead ==
    \/ (\E c \in BOOLEAN : Enter(None, c, FALSE))
         /\ UNCHANGED <<rvars, ivars, evars, gvars, qvars>>
    \/ (\E x \in Items : BodyAdd(x)) /\ UNCHANGED <<rvars, ivars, evars, gvars, qvars>>
    \/ Exit(TRUE) /\ UNCHANGED <<rvars, ivars, evars, gvars, qvars>>
    \/ Catch /\ UNCHANGED <<rvars, ivars, evars, gvars, qvars>>
    \/ (\E entry \in ReadOps, s \in {"None", "n1"}, d \in {"None", "n2"} :
            Read(entry, s, d)) /\ UNCHANGED <<rvars, ivars, evars, gvars, qvars>>

SpecRead == InitRead /\ [][NextRead]_vars

\* ------------------------------------- retryable inside an ambient scope

\* the change a retry-wrapped operation stages in its session
\* (psqlgraph.py:292 merge, 317 merge, 327 delete, 334 add)
Staged == "op"

\* no call of the wrapper is running: none was started, or it has returned
\* or raised
Between == calls = 0 \/ r_pc = "done"

\* the item pending in session s, "none" when nothing is pending
pending_item(s) ==
    IF sessions[s].pending = {} THEN "none" ELSE CHOOSE x \in sessions[s].pending : TRUE

\* util.py:100-115 around psqlgraph.py:278-335  one pass through the loop of
\* the wrapper, called in the body of the innermost scope: func opens
\* `session_scope(session)` with session=None, its body raises IntegrityError
\* on the first r_fail calls and then ends as r_then says, and the scope is
\* left; an exception that leaves the wrapper reaches the body of the
\* ambient scope.  last.item keeps what was pending when the wrapper was
\* called.
AmbientAttempt ==
    /\ exc = "none"
    /\ stack # <<>>
    /\ Attempt
    /\ LET sel == setup_local(None, TRUE)
           f == [session |-> None, local |-> sel.local,
                 inherited |-> sel.inherited, saved |-> ctx]
           res == func(calls + 1)
           body_exc == IF res = "ok" THEN "none" ELSE res
           ms == exit_calls(f, body_exc, TRUE)
           ss == IF res = "ok" THEN add(sessions, sel.local, Staged) ELSE sessions
           st == Run([ss |-> ss, d |-> db], ms, TRUE)
       IN
       /\ sel.local \in 1..Len(sessions)
       /\ sessions' = st.ss
       /\ db' = st.d
       /\ exc' = IF r_pc' = "done" /\ r_out' # "result" THEN r_out' ELSE "none"
       /\ last' = [NoOp EXCEPT !.op = "attempt", !.local = sel.local,
                               !.inherited = sel.inherited, !.prev = ctx,
                               !.item = IF calls = 0 THEN pending_item(ctx)
                                        ELSE last.item,
                               !.ms = ms, !.body_exc = body_exc,
                               !.raised = exc']
    /\ UNCHANGED <<stack, ctx>>

\* the driver is constructed and one call of a retry-wrapped operation, for
\* every max_retries >= 0, is about to be made
InitAmbient ==
    /\ SIdle
    /\ IIdle
    /\ EIdle
    /\ GIdle
    /\ QIdle
    /\ r_kw \in BOOLEAN
    /\ r_max \in 0..MaxRetries
    /\ (~r_kw) => r_max = DEFAULT_RETRIES
    /\ r_fail \in 0..MaxFailures
    /\ r_then \in {"ok", "Exception"}
    /\ retries = 0 /\ calls = 0 /\ backoffs = 0
    /\ r_pc = "loop" /\ r_out = "none"

\* scopes without an explicit session are entered and left and nodes are
\* added in them; inside one the wrapper is called once and runs to its end
NextAmbient ==
    \/ (Between /\ \E c \in BOOLEAN : Enter(None, c, FALSE))
         /\ UNCHANGED <<rvars, ivars, evars, gvars, qvars>>
    \/ (Between /\ \E x \in Items : BodyAdd(x))
         /\ UNCHANGED <<rvars, ivars, evars, gvars, qvars>>
    \/ (Between /\ Exit(TRUE)) /\ UNCHANGED <<rvars, ivars, evars, gvars, qvars>>
    \/ (Between /\ Catch) /\ UNCHANGED <<rvars, ivars, evars, gvars, qvars>>
    \/ AmbientAttempt /\ UNCHANGED <<ivars, evars, gvars, qvars>>

SpecAmbient == InitAmbient /\ [][NextAmbient]_vars

\* ---------------------------------------------------------------- claims

\* positions in ms of the calls of method m
Calls(ms, m) == {i \in 1..Len(ms) : ms[i].m = m}

\* the sessions ms calls a method on
CalledOn(ms) == {ms[i].s : i \in 1..Len(ms)}

\* the last operation entered, or tried to enter, a session scope
Entering == last.op \in {"enter", "enter_fail"}

\* C1: while a session S is active, entering a scope with no explicit session
\* and can_inherit=True yields S, creates no session and leaves every session
\* as it is; what a body stages inside such a nested scope is added to the
\* pending work of S, the session of the enclosing scope, and nowhere else.
C1_InheritedScopeSharesSession ==
    [][ /\ (last'.op = "enter" /\ last'.session = None /\ last'.can_inherit
              /\ ctx # None)
           => /\ last'.local = ctx
              /\ ctx' = ctx
              /\ stack'[Len(stack')].local = ctx
              /\ sessions' = sessions
        /\ (last'.op = "add" /\ Len(stack) >= 2 /\ Top.session = None
              /\ Top.inherited)
           => LET S == stack[Len(stack) - 1].local IN
              /\ Top.local = S
              /\ last'.local = S
              /\ sessions'[S].pending = sessions[S].pending \cup {last'.item}
              /\ Len(sessions') = Len(sessions)
              /\ \A s \in 1..Len(sessions) : s # S => sessions'[s] = sessions[s]
      ]_vars

C1_Witness ==
    /\ last.op = "add"
    /\ Len(stack) = 2
    /\ Top.session = None /\ Top.inherited
    /\ ~stack[1].inherited
    /\ last.item \in sessions[stack[1].local].pending

\* C2: the context has a session exactly while a scope is open, and it is the
\* session of the innermost open scope; entering with no explicit session and
\* can_inherit=False (the must_inherit failure of C4 apart) yields a session
\* created by this entry, different from the one that was active and from
\* the session of every enclosing scope.
C2_OneActiveAndFreshWhenNotInheriting ==
    /\ (stack = <<>>) <=> (ctx = None)
    /\ stack # <<>> => ctx = Top.local
    /\ (Entering /\ last.session = None /\ ~last.can_inherit
          /\ ~(last.must_inherit /\ last.prev = None))
       => /\ last.op = "enter"
          /\ last.created
          /\ ~last.inherited
          /\ last.local = Len(sessions)
          /\ ctx = last.local
          /\ last.local # last.prev
          /\ \A i \in 1..(Len(stack) - 1) : stack[i].local # last.local

C2_Witness ==
    /\ last.op = "enter" /\ last.session = None /\ ~last.can_inherit
    /\ last.prev # None
    /\ Len(stack) = 2

\* C3: when a nested scope C that made its own session (can_inherit=False
\* under an open scope A) has its session rolled back by the body, or is left
\* (also by an exception), no method is called on A's session SA and SA is
\* unchanged, pending work included; and a scope that owns its session and
\* exits without exception commits the session's pending work.
C3_RollbackOfIsolatedScopeSparesOuter ==
    [][ /\ (last'.op \in {"exit", "rollback"} /\ Len(stack) >= 2
              /\ Top.session = None /\ ~Top.inherited)
           => LET SA == stack[Len(stack) - 1].local IN
              /\ SA # Top.local
              /\ SA \notin CalledOn(last'.ms)
              /\ sessions'[SA] = sessions[SA]
        /\ (last'.op = "exit" /\ ~Top.inherited /\ exc = "none" /\ exc' = "none")
           => db' = db \cup sessions[Top.local].pending
      ]_vars

C3_Witness ==
    /\ last.op = "exit" /\ last.body_exc # "none"
    /\ last.session = None /\ ~last.inherited
    /\ Len(stack) = 1 /\ ~Top.inherited
    /\ Top.local # last.local
    /\ sessions[Top.local].pending # {}

\* C4: entering with must_inherit=True while the context has no session
\* raises at once: no scope is opened, no session is created, no session and
\* nothing in the storage changes, and the context still has no session.
C4_MustInheritFailsWithoutSession ==
    [][ (last'.op \in {"enter", "enter_fail"} /\ last'.must_inherit /\ ctx = None)
        => /\ last'.op = "enter_fail"
           /\ exc' = "Exception"
           /\ sessions' = sessions
           /\ db' = db
           /\ stack' = stack
           /\ last'.ms = <<>>
           /\ ctx' = None
      ]_vars

C4_Witness ==
    /\ last.op = "enter_fail" /\ last.must_inherit
    /\ ctx = None /\ stack = <<>>
    /\ exc = "Exception"

\* C5 as stated: entering with an explicit session X makes X the scope's and
\* the context's session for every combination of flags, active session or not.
C5_Original ==
    (Entering /\ last.session # None)
    => /\ last.op = "enter"
       /\ last.local = last.session
       /\ ctx = last.session
       /\ ~last.created

\* C5 amended: entering with an explicit session X never creates a session;
\* with must_inherit=True and no active session the entry raises and X is not
\* made active; in every other case X is the scope's and the context's session.
C5_ExplicitSessionUsedUnlessMustInheritFails ==
    (Entering /\ last.session # None)
    => /\ ~last.created
       /\ IF last.must_inherit /\ last.prev = None
          THEN last.op = "enter_fail" /\ ctx = None /\ stack = <<>>
          ELSE /\ last.op = "enter"
               /\ last.local = last.session
               /\ last.inherited
               /\ ctx = last.session
               /\ Top.local = last.session

C5_Witness ==
    /\ last.op = "enter" /\ last.session # None
    /\ last.prev # None /\ last.prev # last.session
    /\ ctx = last.session

\* C6: when a scope that made its own session is left, by a normal end of the
\* body commit is called exactly once and first, expunge_all and close follow
\* in that order and are the last calls; when the commit fails the same two
\* calls still end the exit and the IntegrityError reaches the caller; in
\* every case the session is closed once the scope is left.
C6_OwnedSessionCommittedThenClosed ==
    (last.op = "exit" /\ ~last.inherited)
    => LET ms == last.ms
           n == Len(last.ms)
       IN
       /\ CalledOn(ms) = {last.local}
       /\ n >= 2
       /\ ms[n - 1].m = "expunge_all" /\ ms[n].m = "close"
       /\ Calls(ms, "close") = {n}
       /\ sessions[last.local].closed
       /\ sessions[last.local].pending = {}
       /\ last.body_exc = "none" => Calls(ms, "commit") = {1}
       /\ last.body_exc # "none" => Calls(ms, "commit") = {}
       /\ (last.body_exc = "none" /\ last.commit_ok) => exc = "none"
       /\ (last.body_exc = "none" /\ ~last.commit_ok) => exc = "IntegrityError"

C6_Witness ==
    /\ last.op = "exit" /\ ~last.inherited
    /\ last.body_exc = "none" /\ ~last.commit_ok
    /\ sessions[last.local].closed

\* C7 as stated: for every exception a body raises, the scope's session is
\* rolled back and the same exception leaves the scope.
C7_Original ==
    (last.op = "exit" /\ last.body_exc # "none")
    => /\ [m |-> "rollback", s |-> last.local] \in {last.ms[i] : i \in 1..Len(last.ms)}
       /\ exc = last.body_exc

\* C7 amended: for every exception deriving from Exception that a body
\* raises, rollback is the first call the scope makes on its session, the
\* session (the shared one, if the scope inherited it) has no pending work
\* left, and the same exception leaves the scope; an exception that does not
\* derive from Exception leaves the scope too, without a rollback call.
C7_ExceptionRollsBackAndPropagates ==
    (last.op = "exit" /\ last.body_exc # "none")
    => /\ exc = last.body_exc
       /\ IF last.body_exc \in {"IntegrityError", "Exception"}
          THEN /\ last.ms # <<>>
               /\ last.ms[1] = [m |-> "rollback", s |-> last.local]
               /\ sessions[last.local].pending = {}
          ELSE Calls(last.ms, "rollback") = {}

C7_Witness ==
    /\ last.op = "exit" /\ last.body_exc = "Exception"
    /\ last.inherited /\ last.session = None
    /\ Len(stack) = 1 /\ ~Top.inherited /\ Top.local = last.local
    /\ exc = "Exception"

\* C8 as stated: a scope that did not create its session calls nothing on it
\* when it is left, normally or by an exception.
C8_Original ==
    (last.op = "exit" /\ last.inherited) => last.ms = <<>>

\* C8 amended: a scope that did not create its session never commits,
\* expunges or closes it and never changes the storage; left normally it
\* calls nothing and leaves every session as it is; left by an exception
\* deriving from Exception it calls rollback on that session, and nothing else.
C8_NonOwnerNeverCommitsOrCloses ==
    [][ (last'.op = "exit" /\ Top.inherited)
        => LET s == Top.local IN
           /\ db' = db
           /\ sessions'[s].closed = sessions[s].closed
           /\ Calls(last'.ms, "commit") = {}
           /\ Calls(last'.ms, "expunge_all") = {}
           /\ Calls(last'.ms, "close") = {}
           /\ exc = "none" => (last'.ms = <<>> /\ sessions' = sessions)
           /\ exc \in {"IntegrityError", "Exception"}
                => last'.ms = <<[m |-> "rollback", s |-> s]>>
           /\ exc = "BaseException" => (last'.ms = <<>> /\ sessions' = sessions)
      ]_vars

C8_Witness ==
    /\ last.op = "exit" /\ last.inherited
    /\ last.body_exc = "none"
    /\ stack # <<>> /\ Top.local = last.local
    /\ ~sessions[last.local].closed
    /\ sessions[last.local].pending # {}

\* C9: with max_retries = n >= 0 passed as a keyword and a function that
\* conflicts on its first k calls and then succeeds, wrapper ends after k+1
\* calls and k backoffs with the function's result if k <= n, and after n+1
\* calls and n backoffs with the IntegrityError if k > n; without the keyword
\* the function is called once and backoff never.
C9_RetryCounts ==
    /\ backoffs = retries
    /\ (r_pc = "done" /\ r_kw /\ r_max >= 0 /\ r_then = "ok")
       => IF r_fail <= r_max
          THEN calls = r_fail + 1 /\ backoffs = r_fail /\ r_out = "result"
          ELSE calls = r_max + 1 /\ backoffs = r_max /\ r_out = "IntegrityError"
    /\ (r_pc = "done" /\ ~r_kw) => (calls = 1 /\ backoffs = 0)

C9_Witness ==
    /\ r_pc = "done" /\ r_kw /\ r_then = "ok"
    /\ r_max = 2 /\ r_fail = 3
    /\ calls = 3 /\ backoffs = 2 /\ r_out = "IntegrityError"

\* C10: once a call of the wrapped function raises an exception that is not
\* an IntegrityError, wrapper has ended with that exception: that call is the
\* last one, and no backoff follows it (every backoff follows a conflict).
C10_OtherExceptionsNotRetried ==
    (calls > r_fail /\ r_then \in {"Exception", "BaseException"})
    => /\ r_pc = "done"
       /\ r_out = r_then
       /\ calls = r_fail + 1
       /\ backoffs = r_fail

C10_Witness ==
    /\ r_pc = "done" /\ r_out = "Exception"
    /\ r_kw /\ r_max = MaxRetries
    /\ calls = 2 /\ backoffs = 1

\* C11 as stated: when two contexts have inserted a node with the same id
\* with max_retries=3, every insert has ended in success, in the conflict
\* error or rolled back, exactly one has succeeded unless one was rolled
\* back, and the id has at most one live row.
C11_Original ==
    (i_kw /\ i_id[1] = i_id[2] /\ i_rows[i_id[1]] = 0
       /\ \A c \in Contexts : i_pc[c] = "done")
    => /\ \A c \in Contexts : i_res[c] \in {"ok", "IntegrityError", "rolledback"}
       /\ (\A c \in Contexts : i_res[c] # "rolledback")
            => Cardinality({c \in Contexts : i_res[c] = "ok"}) = 1
       /\ i_rows[i_id[1]] <= 1

\* the operations whose scope commits and flushes
FlushingOps == {"insert", "update", "clobber", "merge", "delete"}

\* C12: in every flush, an entity whose properties or system_annotations
\* differ from the previously committed values gets exactly one history
\* record (also when both differ), and an entity with neither changed gets none.
C12_OneHistoryRecordPerChangedEntity ==
    [][e_last'.op \in FlushingOps =>
        LET differs == \E old \in e_rows, new \in e_rows' :
                          old.props # new.props \/ old.sysan # new.sysan
        IN  Len(e_new') = IF differs THEN 1 ELSE 0]_vars

\* an update changed both tracked fields of a stored edge and left one record
C12_Witness ==
    /\ e_kind = "edge" /\ e_last.op = "update" /\ Len(e_new) = 1
    /\ \E row \in e_rows :
          e_new[1].props # row.props /\ e_new[1].sysan # row.sysan

\* C13 as stated: the history record of a mutated edge carries the edge's
\* label and the values properties, system_annotations and acl had before
\* the mutation.
C13_Original ==
    [][(e_kind = "edge" /\ e_last'.op \in FlushingOps /\ Len(e_new') >= 1) =>
        \A old \in e_rows :
            e_new'[1] = Entity(old.label, old.acl, old.props, old.sysan)]_vars

\* C15: an entity's label L is write-once: a setter call with another value
\* raises AttributeError, a setter call with L changes nothing, and after
\* every setter call the label is still L.
C15_LabelIsWriteOnce ==
    [][e_last'.op = "set_label" =>
        /\ e_obj'.label = e_obj.label
        /\ e_last'.raised = IF e_last'.label # e_obj.label
                            THEN "AttributeError" ELSE "none"
        /\ e_last'.label = e_obj.label => (e_obj' = e_obj /\ e_rows' = e_rows)]_vars

\* the label setter of an edge was called with another label and raised
C15_Witness ==
    /\ e_kind = "edge" /\ e_last.op = "set_label"
    /\ e_last.label # e_obj.label /\ e_last.raised = "AttributeError"

\* C16: node_merge creates the node with the given label, acl,
\* system_annotations and properties when no live node has the id, overlays
\* the given mappings on the stored ones when one has, and leaves exactly
\* one live node with the id once its scope has committed.
C16_MergeInsertsOrUpdatesById ==
    [][e_last'.op = "merge" =>
        /\ Cardinality(e_rows') = 1
        /\ \A new \in e_rows' :
            IF e_rows = {}
            THEN /\ new.label = e_last'.label /\ new.acl = e_last'.acl
                 /\ new.sysan = e_last'.sysan /\ new.props = e_last'.props
            ELSE \A old \in e_rows :
                 /\ \A k \in PropKeys : new.props[k] =
                       IF e_last'.props[k] # None THEN e_last'.props[k]
                       ELSE old.props[k]
                 /\ \A k \in SysanKeys : new.sysan[k] =
                       IF e_last'.sysan[k] # None THEN e_last'.sysan[k]
                       ELSE old.sysan[k]]_vars

\* a merge onto a stored node overwrote k1 and kept k2
C16_Witness ==
    /\ e_kind = "node" /\ e_last.op = "merge" /\ Len(e_new) = 1
    /\ e_last.props["k1"] = 2 /\ e_last.props["k2"] = None
    /\ e_new[1].props["k1"] = 1 /\ e_new[1].props["k2"] = 1
    /\ \E row \in e_rows : row.props["k1"] = 2 /\ row.props["k2"] = 1

\* C17: node_update and edge_update overlay the given mappings (given keys
\* take the given value, the other keys keep theirs, none is removed),
\* node_update replaces acl only when one is supplied, and node_clobber
\* replaces exactly the fields whose argument is supplied.
C17_UpdateOverlaysClobberReplaces ==
    [][/\ e_last'.op = "update" =>
            \A new \in e_rows' :
               /\ \A k \in PropKeys : new.props[k] =
                     IF e_last'.props[k] # None THEN e_last'.props[k]
                     ELSE e_obj.props[k]
               /\ \A k \in SysanKeys : new.sysan[k] =
                     IF e_last'.sysan[k] # None THEN e_last'.sysan[k]
                     ELSE e_obj.sysan[k]
               /\ new.acl = IF e_last'.acl # "None" THEN e_last'.acl
                            ELSE e_obj.acl
               /\ new.label = e_obj.label
       /\ e_last'.op = "clobber" =>
            \A new \in e_rows' :
               /\ new.props = IF e_last'.pg THEN e_last'.props ELSE e_obj.props
               /\ new.sysan = IF e_last'.sg THEN e_last'.sysan ELSE e_obj.sysan
               /\ new.acl = IF e_last'.acl # "None" THEN e_last'.acl
                            ELSE e_obj.acl
               /\ new.label = e_obj.label]_vars

\* an update of a stored edge overwrote k1, kept k2 and kept the acl
C17_Witness ==
    /\ e_kind = "edge" /\ e_last.op = "update" /\ Len(e_new) = 1
    /\ e_last.props["k1"] = 2 /\ e_last.props["k2"] = None
    /\ e_new[1].props["k1"] = 1 /\ e_new[1].props["k2"] = 1
    /\ \E row \in e_rows :
          row.props["k1"] = 2 /\ row.props["k2"] = 1 /\ row.acl = "['a']"

\* C18 as stated: node_lookup returns exactly the live nodes that satisfy
\* every supplied filter among node_id, property_matches,
\* system_annotation_matches and label.
C18_Original ==
    e_kind = "node" =>
        \A node_id \in NodeIds \cup {"None"}, label \in Labels \cup {"None"},
           pg, sg \in BOOLEAN, pm \in PropDicts, sm \in SysanDicts :
            node_lookup(e_rows, node_id, pg, pm, label, sg, sm) =
                {r \in e_rows :
                    /\ node_id # "None" => EntityId = node_id
                    /\ pg => contains(r.props, pm)
                    /\ sg => contains(r.sysan, sm)
                    /\ label # "None" => r.label = label}

\* C14: the committed history records only grow: no operation (insert,
\* merge, update, clobber, delete, edge_delete_by_node_id) removes or changes
\* one, and deleting a live node or edge leaves its records in place.
C14_HistoryOnlyGrows ==
    [][g_hist \subseteq g_hist']_vars

\* an edge with a history record was deleted by edge_delete, a node with a
\* history record by node_delete, and both records are stored
C14_Witness ==
    /\ g_del.node = "n2" /\ g_del.edges = {}
    /\ g_edges[<<"L1", "n1", "n2">>] = None
    /\ \E h \in g_hist : h.kind = "edge" /\ h.key = <<"L1", "n1", "n2">>
    /\ \E h \in g_hist : h.kind = "node" /\ h.key = "n2"

\* C19 as stated: inside an active scope, edge_lookup(src_id=X) returns
\* exactly the live edges whose src_id is X, of every label.
C19_Original ==
    \A X \in NodeIds :
        edge_lookup(g_edges, X, "None", "None") =
            [raised |-> "none",
             result |-> {e \in live_edges(g_edges) : src_id_of(e) = X}]

\* C20: every live edge's endpoints are live nodes, and a committed
\* node_delete of X leaves no live edge with X as src_id or dst_id and keeps
\* every history record, those of X and of the removed edges included.
C20_NodeDeleteCascadesToEdges ==
    /\ [](\A e \in live_edges(g_edges) :
            g_nodes[src_id_of(e)] # None /\ g_nodes[dst_id_of(e)] # None)
    /\ [][g_del'.node # "None" =>
            /\ g_nodes'[g_del'.node] = None
            /\ \A e \in live_edges(g_edges') :
                  src_id_of(e) # g_del'.node /\ dst_id_of(e) # g_del'.node
            /\ g_hist \subseteq g_hist']_vars

\* n1 was deleted with both its edges, and history records of n1 and of
\* both edges are stored
C20_Witness ==
    /\ g_del.node = "n1" /\ g_del.edges = EdgeKeys
    /\ \E h \in g_hist : h.kind = "node" /\ h.key = "n1"
    /\ \A e \in EdgeKeys : \E h \in g_hist : h.kind = "edge" /\ h.key = e

\* C28 as stated: for every integer max_retries, negative ones included,
\* wrapper has invoked the wrapped operation at least once when it returns
\* or raises.
C28_Original ==
    r_pc = "done" => calls >= 1

\* C25: scopes follow a stack discipline: a scope that is entered remembers
\* the context's active session, a scope that exits (normally or by an
\* exception, whatever its flags) makes that session the active one again,
\* no other step changes the open scopes or the active session, and with
\* no scope open the context has no active session.
C25_ScopesRestoreTheActiveSession ==
    /\ [](stack = <<>> => ctx = None)
    /\ [][/\ last'.op = "enter" =>
               /\ Len(stack') = Len(stack) + 1
               /\ SubSeq(stack', 1, Len(stack)) = stack
               /\ stack'[Len(stack')].saved = ctx
          /\ last'.op = "exit" =>
               /\ stack' = SubSeq(stack, 1, Len(stack) - 1)
               /\ ctx' = stack[Len(stack)].saved
          /\ last'.op \notin {"enter", "exit"} =>
               (stack' = stack /\ ctx' = ctx)]_vars

\* a scope with a session of its own, nested in another scope, was left by
\* an exception that `except Exception` does not catch, and the outer
\* scope's session is the active one again
C25_Witness ==
    /\ last.op = "exit" /\ last.raised = "BaseException" /\ ~last.inherited
    /\ Len(stack) = 1 /\ ctx = stack[1].local /\ last.local # ctx

\* C21: edge_delete_by_node_id(X) deletes exactly the live edges whose
\* src_id or dst_id is X, a self-loop on X included: afterwards none of them
\* is live, every other edge is as it was, and no node is removed.
C21_DeletesExactlyIncidentEdges ==
    [][g_del'.of # "None" =>
        /\ \A e \in EdgeKeys :
              g_edges'[e] = IF src_id_of(e) = g_del'.of \/ dst_id_of(e) = g_del'.of
                            THEN None ELSE g_edges[e]
        /\ g_del'.edges = {e \in live_edges(g_edges) :
                              src_id_of(e) = g_del'.of \/ dst_id_of(e) = g_del'.of}
        /\ g_nodes' = g_nodes]_vars

\* edge_delete_by_node_id(n2) deleted the edge n1 -> n2 and left the
\* self-loop on n1 and both nodes
C21_Witness ==
    /\ g_del.of = "n2" /\ g_del.edges = {<<"L1", "n1", "n2">>}
    /\ g_edges[<<"L2", "n1", "n1">>] # None
    /\ g_nodes["n1"] # None /\ g_nodes["n2"] # None

BuilderOps ==
    {"ids", "not_ids", "labels", "not_labels", "props", "not_props", "prop_in",
     "sysan", "not_sysan", "not_sysan_in", "with_edge_to_node",
     "with_edge_from_node", "has_edges", "has_no_edges", "path_out", "path_in"}

\* query.py:75-76, 94-95  the nodes at the end of a chain of edges from node n
\* whose i-th reached node has the i-th label
RECURSIVE chain_ends(_, _, _)
chain_ends(n, lbls, dir) ==
    IF lbls = <<>> THEN {n}
    ELSE UNION {chain_ends(m, Tail(lbls), dir) :
                   m \in {x \in joined(n, dir) : q_nodes[x].label = Head(lbls)}}

\* C22 (as stated): path_out(labels) and path_in(labels) return a query that
\* keeps exactly the roots with a chain of edges whose i-th reached node has the
\* i-th label; without reset later filters apply to the node reached by the
\* last hop, with reset the join point is the root again after all hops.
\* Violated: without reset the method returns None, and with reset it returns
\* after the first hop.
C22_Original ==
    q_last.op \in {"path_out", "path_in"} =>
        LET dir == IF q_last.op = "path_out" THEN "out" ELSE "in"
            b == q_last.before
            kept == {row \in b.rows : /\ entity(b, row) # NULL
                                      /\ chain_ends(entity(b, row), q_last.labels, dir) # {}}
        IN  /\ ~ q_query.none
            /\ result(q_query) = {row[1] : row \in kept}
            /\ q_last.reset => q_query.at = "root"
            /\ (~ q_last.reset /\ q_last.labels # <<>>) =>
                   /\ q_query.at = "joined"
                   /\ \A row \in kept :
                          {x[2] : x \in {y \in q_query.rows : y[1] = row[1]}}
                              = chain_ends(entity(b, row), q_last.labels, dir)

\* C24 (as stated): every builder operation returns a query, and the result
\* set of that query is a subset of the result set of the query it was applied
\* to.  Violated: path_out and path_in without reset return None.
C24_Original ==
    q_last.op \in BuilderOps =>
        /\ ~ q_query.none
        /\ result(q_query) \subseteq result(q_last.before)

\* C27 (as stated): a read entry point called with no active session fails
\* with the must-inherit error; called with an active session it returns a
\* query bound to exactly that session, and no session is created, committed,
\* rolled back or closed.  Violated: edge_lookup with src_id or dst_id raises
\* AttributeError inside an active scope instead of returning a query.
C27_Original ==
    last.op = "read" =>
        IF last.prev = None
        THEN last.raised = "RuntimeError" /\ exc = "Exception"
        ELSE /\ last.raised = "none"
             /\ last.local = last.prev
             /\ last.ms = <<>>
             /\ ~ last.created

\* C26: when a retry-wrapped operation runs inside an ambient scope, every
\* attempt runs on the ambient session and commits nothing; an attempt that
\* ends with an integrity conflict rolls the ambient session back, so nothing
\* is pending in it when the next attempt starts; and after a retry that
\* succeeded only the operation's own change is pending: what was pending
\* before the operation is no longer pending, and no attempt stored it.
C26_ConflictRollsBackTheAmbientSession ==
    /\ [](last.op = "attempt" =>
            /\ last.local = ctx /\ last.inherited
            /\ \A i \in 1..Len(last.ms) : last.ms[i].m = "rollback" /\ last.ms[i].s = ctx
            /\ last.body_exc = "IntegrityError" =>
                   /\ last.ms = <<[m |-> "rollback", s |-> ctx]>>
                   /\ sessions[ctx].pending = {}
            /\ (r_out = "result" /\ retries >= 1) =>
                   sessions[ctx].pending = {Staged})
    /\ [][last'.op = "attempt" => (db' = db /\ ctx' = ctx /\ Len(sessions') = Len(sessions))]_vars

\* a change was pending in the ambient session, the first attempt hit a
\* conflict, and the retry succeeded
C26_Witness ==
    /\ last.op = "attempt"
    /\ last.item = "n1"
    /\ r_out = "result"
    /\ retries >= 1
    /\ "n1" \notin sessions[ctx].pending
    /\ db = {}

====
